---- MODULE Spec2Model ----
(***************************************************************************)
(* A model of the security-gating package index proxy:                     *)
(*   - the Gate        (controllers/package_controller.py, services/,      *)
(*                      repositories/package_repository.py)                *)
(*   - the Catalog     (table "packages", models/package.py)               *)
(*   - the Orchestrator tick (process_pending_packages.py)                 *)
(*   - the Scanner worker    (scan_package.py)                             *)
(* Strings that the code takes apart (package specs, names, versions) are  *)
(* sequences of chunks: "numpy==1.0" is <<"numpy", "==", "1.0">>.          *)
(***************************************************************************)
EXTENDS Integers, Sequences, FiniteSets, TLC

(***************************************************************************)
(* Bounds of the model.                                                    *)
(***************************************************************************)
MaxRows == 2          \* rows the catalog may hold (inserts are capped)
NumRuntimes == 2      \* how many of the configured runtimes a worker tries
MaxJobs == 12         \* runner jobs outstanding at once (submits are capped)
MaxSeedRows == 1      \* rows of a pre-existing catalog (specification SpecGate)
MaxClock == 2         \* seconds the orchestrator's clock may advance
MaxVersionLen == 3    \* characters of a version handed to the normalizer

(***************************************************************************)
(* Program constants.                                                      *)
(***************************************************************************)
MAX_CONCURRENT_JOBS == 10
max_retries == 3

\* Python's None for name / version values (no input string equals it).
None == <<"None">>

Handlers == {"h1", "h2"}      \* request handlers of the multi-worker HTTP server
Workers == {"w1"}             \* scanner processes that may run at once

\* Inputs of the Gate: package names, versions, python versions.
Names == {<<"numpy">>}
Versions == {None, <<"1.0">>}
PyVersions == {"None", "3.11.0"}

\* PackageStatus, models/package.py
PackageStatus ==
    {"pending", "downloaded", "completed", "vulnerable",
     "not_found", "download_error", "scan_error", "error"}

\* PYTHON_VERSIONS, scan_package.py:34 (default '3.9 3.10 3.11 3.12'), cut to
\* the first NumRuntimes entries.
AllRuntimes == <<"3.9", "3.10", "3.11", "3.12", "3.13", "3.14">>
PYTHON_VERSIONS == SubSeq(AllRuntimes, 1, NumRuntimes)

(***************************************************************************)
(* Catalog: the table "packages".  A row's id is its position.             *)
(***************************************************************************)
Row(name, version, py, status, info) ==
    [package_name |-> name, version |-> version, python_version |-> py,
     status |-> status, vulnerability_info |-> info]

\* Python truthiness of an Optional[str]
Truthy(s) == s # None /\ s # <<>>

\* Package.__table_args__: the tuple holds only the sqlite option; no
\* UniqueConstraint on (package_name, version) is declared.
UniqueNameVersion == FALSE

\* A faulty variant of FindMatches that compares the version as given.
FindMatches_ExactOnly(cat, package_name, version) ==
    { i \in 1..Len(cat) :
        /\ cat[i].package_name = package_name
        /\ cat[i].version = version }

\* PackageRepository.find_by_name_and_version: the rows the query matches.
\* .first() has no ORDER BY, so any of them may be the one returned.
FindMatches(cat, package_name, version) ==
    { i \in 1..Len(cat) :
        /\ cat[i].package_name = package_name
        /\ IF Truthy(version)
             THEN cat[i].version = version
             ELSE cat[i].version = <<"latest">> \/ cat[i].version = None }

\* PackageRepository.create with a reachable database: INSERT of
\* (name, version or "latest", python_version, status); IntegrityError (only
\* a declared unique constraint raises it) rolls back and inserts nothing.
Create(cat, package_name, version, python_version, status) ==
    LET v == IF Truthy(version) THEN version ELSE <<"latest">>
        dup == \E i \in 1..Len(cat) :
                  cat[i].package_name = package_name /\ cat[i].version = v
    IN IF UniqueNameVersion /\ dup
         THEN cat
         ELSE Append(cat, Row(package_name, v, python_version, status, "None"))

\* scan_package.update_package_status with a reachable database:
\* UPDATE packages SET status, vulnerability_info WHERE package_name = %s
UpdatePackageStatus(cat, package_name, status, vulnerability_info) ==
    [ i \in 1..Len(cat) |->
        IF cat[i].package_name = package_name
          THEN [cat[i] EXCEPT !.status = status,
                              !.vulnerability_info = vulnerability_info]
          ELSE cat[i] ]

(***************************************************************************)
(* Internal index (the upstream PyPI server the Gate probes and the worker *)
(* uploads to): the set of artifacts it holds.                             *)
(***************************************************************************)
File(name, version, suffix) == [name |-> name, version |-> version, suffix |-> suffix]

\* GET /simple/{name}/ answered by the index itself: 200 when it holds a file
\* of that name, 404 otherwise.
IndexAnswer(idx, package_name) ==
    IF \E f \in idx : f.name = package_name THEN "200" ELSE "404"

\* PackageService.check_pypi_availability: available only on status 200;
\* any other status and a requests.RequestException give (False, None, None).
CheckPypiAvailability(answer) == answer = "200"

\* Faulty variants of GateDecision, used to show that the Gate properties
\* below depend on the case analysis.
GateDecision_VulnerableWaits(status) ==
    CASE status = "completed" -> "200"
      [] status \in {"pending", "downloaded", "vulnerable"} -> "503"
      [] OTHER -> "add"

GateDecision_PendingAllowed(status) ==
    CASE status \in {"completed", "pending"} -> "200"
      [] status = "vulnerable" -> "403"
      [] status = "downloaded" -> "503"
      [] OTHER -> "add"

GateDecision_VulnerableGone(status) ==
    CASE status = "completed" -> "200"
      [] status = "vulnerable" -> "410"
      [] status \in {"pending", "downloaded"} -> "503"
      [] OTHER -> "add"

GateDecision_CompletedWaits(status) ==
    CASE status = "vulnerable" -> "403"
      [] status \in {"pending", "downloaded", "completed"} -> "503"
      [] OTHER -> "add"

\* PackageController.get_package, the case analysis on the catalog status.
\* "add" stands for the else branch (add_package_for_scanning, then 503).
GateDecision(status) ==
    CASE status = "completed" -> "200"
      [] status = "vulnerable" -> "403"
      [] status \in {"pending", "downloaded"} -> "503"
      [] OTHER -> "add"

\* An HTTP response of the Gate: the Content-Type header, the "status" member
\* of the body (0 when the body has none), its "instance" member and the
\* Retry-After header.
HttpResponse(content_type, status, instance, retry_after) ==
    [content_type |-> content_type, status |-> status,
     instance |-> instance, retry_after |-> retry_after]

NoResponse == HttpResponse("None", 0, <<>>, "None")

\* Response(content, status=200, headers=headers) with the upstream body and
\* headers (controller line 62).
PassThrough == HttpResponse("upstream", 0, <<>>, "None")

\* Response(content, status=200, headers=headers) with content and headers
\* None (controller line 70).
EmptyOk == HttpResponse("text/html", 0, <<>>, "None")

Instance(package_name) == <<"/simple/">> \o package_name \o <<"/">>

\* PackageController._respond_vulnerable
respond_vulnerable(package_name) ==
    HttpResponse("application/problem+json", 403, Instance(package_name), "None")

\* PackageController._respond_pending
respond_pending(package_name) ==
    HttpResponse("application/problem+json", 503, Instance(package_name), "300")

\* PackageController._respond_error
respond_error == HttpResponse("application/problem+json", 500, <<>>, "None")

\* ---------------------------------------------------------------------
\* Request normalizer (utils/version_parser.py).  A string is the sequence
\* of its characters.  The characters drawn below contain no line break,
\* so "." of the pattern matches every one of them and "$" is the end.
\* ---------------------------------------------------------------------
Whitespace == {" "}

\* The members of [a-zA-Z0-9_.-] among the characters the inputs use.
NameChars == {"n", "p", "1", "0", ".", "-", "_"}

\* The alternation (==|>=|<=|>|<|~=), in the order the pattern tries it.
Operators ==
    << <<"=", "=">>, <<">", "=">>, <<"<", "=">>, <<">">>, <<"<">>,
       <<"~", "=">> >>

\* re.sub(r'\[.*?\]', '', s): every "[" up to the nearest following "]".
RECURSIVE RemoveExtras(_)
RemoveExtras(s) ==
    IF s = <<>> THEN <<>>
    ELSE IF Head(s) = "[" /\ \E j \in 2..Len(s) : s[j] = "]"
         THEN LET j == CHOOSE j \in 2..Len(s) :
                          /\ s[j] = "]"
                          /\ \A k \in 2..(j - 1) : s[k] # "]"
              IN RemoveExtras(SubSeq(s, j + 1, Len(s)))
         ELSE <<Head(s)>> \o RemoveExtras(Tail(s))

RECURSIVE LStrip(_)
LStrip(s) ==
    IF s # <<>> /\ Head(s) \in Whitespace THEN LStrip(Tail(s)) ELSE s

RECURSIVE RStrip(_)
RStrip(s) ==
    IF s # <<>> /\ s[Len(s)] \in Whitespace
      THEN RStrip(SubSeq(s, 1, Len(s) - 1)) ELSE s

\* str.strip()
Strip(s) == RStrip(LStrip(s))

StartsWith(s, prefix) ==
    /\ Len(s) >= Len(prefix)
    /\ SubSeq(s, 1, Len(prefix)) = prefix

\* re.search(r'^([a-zA-Z0-9_.-]+)(==|>=|<=|>|<|~=)(.+)$', s): the longest
\* name, then the first operator of the alternation, that leave a
\* non-empty rest.
ReSearch(s) ==
    LET fits == { c \in (1..Len(s)) \X (1..Len(Operators)) :
                     /\ \A k \in 1..c[1] : s[k] \in NameChars
                     /\ StartsWith(SubSeq(s, c[1] + 1, Len(s)), Operators[c[2]])
                     /\ Len(s) > c[1] + Len(Operators[c[2]]) }
    IN IF fits = {}
         THEN [matched |-> FALSE, group1 |-> <<>>, group2 |-> <<>>,
               group3 |-> <<>>]
         ELSE LET c == CHOOSE c \in fits :
                          \A d \in fits :
                             \/ c[1] > d[1]
                             \/ c[1] = d[1] /\ c[2] <= d[2]
              IN [matched |-> TRUE,
                  group1 |-> SubSeq(s, 1, c[1]),
                  group2 |-> Operators[c[2]],
                  group3 |-> SubSeq(s, c[1] + Len(Operators[c[2]]) + 1, Len(s))]

\* The behaviour of the docstring example "numpy>=1.20.0" -> ("numpy",
\* "1.20.0"): the comparator is dropped.
parse_package_and_version_BareVersion(package_name) ==
    IF package_name = <<>>
      THEN [name |-> <<>>, version |-> None]
      ELSE LET without_extras == RemoveExtras(package_name)
               match == ReSearch(without_extras)
           IN IF match.matched
                THEN [name |-> Strip(match.group1),
                      version |-> Strip(match.group3)]
                ELSE [name |-> Strip(without_extras), version |-> None]

parse_package_and_version(package_name) ==
    IF package_name = <<>>
      THEN [name |-> <<>>, version |-> None]
      ELSE LET without_extras == RemoveExtras(package_name)
               match == ReSearch(without_extras)
           IN IF match.matched
                THEN IF match.group2 = <<"=", "=">>
                       THEN [name |-> Strip(match.group1),
                             version |-> Strip(match.group3)]
                       ELSE [name |-> Strip(match.group1),
                             version |-> match.group2 \o Strip(match.group3)]
                ELSE [name |-> Strip(without_extras), version |-> None]

VARIABLES
    catalog,    \* sequence of rows of table "packages"
    index,      \* set of files published on the internal index
    gate,       \* per handler: the Gate call it is serving
    worker,     \* per scanner process: the run it is executing
    jobs,       \* runner: outstanding scanner jobs per PACKAGE_NAME spec
    tick,       \* the orchestrator's current tick
    parser      \* the request normalizer: one call of parse_package_and_version

vars == <<catalog, index, gate, worker, jobs, tick, parser>>

ParserIdle ==
    [pc |-> "idle", name |-> <<>>, extras |-> <<>>, op |-> <<>>,
     version |-> <<>>, package_name |-> <<>>,
     result |-> [name |-> <<>>, version |-> None]]

\* One call of the normalizer on the string the installer asked for.
ParseCall ==
    /\ parser.pc = "input"
    /\ parser' = [parser EXCEPT
                    !.result = parse_package_and_version(parser.package_name),
                    !.pc = "done"]
    /\ UNCHANGED <<catalog, index, gate, worker, jobs, tick>>

GateIdle ==
    [pc |-> "idle", package_name |-> None, version |-> None,
     python_version |-> "None", available |-> FALSE, status |-> "None",
     vuln_info |-> "None", code |-> "None", unread |-> {},
     catalog_failed |-> FALSE, response |-> NoResponse,
     handler |-> "None"]


(***************************************************************************)
(* Gate: PackageController.get_package, one action per suspension point    *)
(* (upstream probe, catalog read, catalog insert).                         *)
(***************************************************************************)

\* PackageService.check_package_status: what the catalog read may return.
\* find_by_name_and_version swallows every database error and returns None,
\* which check_package_status reports as ('unknown', None).
CheckPackageStatus(cat, package_name, version, dbok) ==
    LET m == FindMatches(cat, package_name, version)
    IN IF dbok /\ m # {}
         THEN { [status |-> cat[i].status,
                 vulnerability_info |-> cat[i].vulnerability_info] : i \in m }
         ELSE { [status |-> "unknown", vulnerability_info |-> "None"] }

\* catalog_failed in the Gate record: a catalog read or insert of the call did
\* not reach the database.

\* Statuses of the catalog rows that match a request.  The Gate record keeps
\* them in "unread" when it answers from the index without reading the
\* catalog.
MatchedStatuses(cat, package_name, version) ==
    { cat[i].status : i \in FindMatches(cat, package_name, version) }

\* A faulty variant of GateProbe that goes on to the catalog although the
\* index holds the package.
GateProbe_ReadsFirst(h, package_name, version, python_version, answer) ==
    /\ gate[h].pc = "idle"
    /\ answer \in {IndexAnswer(index, package_name), "500", "exception",
                   "other_exception"}
    /\ gate' = [gate EXCEPT ![h] =
          [GateIdle EXCEPT
             !.package_name = package_name,
             !.version = version,
             !.python_version = python_version,
             !.available = CheckPypiAvailability(answer),
             !.code = IF answer = "other_exception" THEN "500" ELSE "None",
             !.response = IF answer = "other_exception"
                            THEN respond_error ELSE NoResponse,
             !.handler = "get_package",
             !.pc = IF answer = "other_exception" THEN "done" ELSE "lookup"]]
    /\ UNCHANGED <<parser, catalog, index, worker, jobs, tick>>

\* Step 1: probe the internal index (lines 56-62).  "exception" is a
\* requests.RequestException, which check_pypi_availability catches;
\* "other_exception" is any other exception raised during the probe, which
\* reaches the handler's except Exception (lines 94-96).
GateProbe(h, package_name, version, python_version, answer) ==
    /\ gate[h].pc = "idle"
    /\ answer \in {IndexAnswer(index, package_name), "500", "exception",
                   "other_exception"}
    /\ gate' = [gate EXCEPT ![h] =
          [GateIdle EXCEPT
             !.package_name = package_name,
             !.version = version,
             !.python_version = python_version,
             !.available = CheckPypiAvailability(answer),
             !.unread = IF CheckPypiAvailability(answer)
                           THEN MatchedStatuses(catalog, package_name, version)
                           ELSE {},
             !.code = CASE CheckPypiAvailability(answer) -> "200"
                        [] answer = "other_exception" -> "500"
                        [] OTHER -> "None",
             !.response = CASE CheckPypiAvailability(answer) -> PassThrough
                            [] answer = "other_exception" -> respond_error
                            [] OTHER -> NoResponse,
             !.handler = "get_package",
             !.pc = IF CheckPypiAvailability(answer) \/ answer = "other_exception"
                      THEN "done" ELSE "lookup"]]
    /\ UNCHANGED <<parser, catalog, index, worker, jobs, tick>>

\* Step 2: read the catalog and decide (lines 64-83).
GateLookup(h, dbok) ==
    /\ gate[h].pc = "lookup"
    /\ \E r \in CheckPackageStatus(catalog, gate[h].package_name,
                                   gate[h].version, dbok) :
          LET d == GateDecision(r.status)
          IN gate' = [gate EXCEPT ![h] =
                [@ EXCEPT
                   !.status = r.status,
                   !.vuln_info = r.vulnerability_info,
                   !.catalog_failed = ~dbok,
                   !.code = IF d = "add" THEN "None" ELSE d,
                   !.response =
                      CASE d = "200" -> EmptyOk
                        [] d = "403" -> respond_vulnerable(gate[h].package_name)
                        [] d = "503" -> respond_pending(gate[h].package_name)
                        [] OTHER -> NoResponse,
                   !.pc = IF d = "add" THEN "add" ELSE "done"]]
    /\ UNCHANGED <<parser, catalog, index, worker, jobs, tick>>

\* Step 3: the else branch (lines 85-92): add_package_for_scanning, whose
\* result is ignored, then 503.  A failed insert (dbok = FALSE) returns None.
GateAdd(h, dbok) ==
    /\ gate[h].pc = "add"
    /\ dbok => Len(catalog) < MaxRows
    /\ catalog' = IF dbok
                    THEN Create(catalog, gate[h].package_name, gate[h].version,
                                gate[h].python_version, "pending")
                    ELSE catalog
    /\ gate' = [gate EXCEPT ![h] =
          [@ EXCEPT !.code = "503", !.pc = "done",
                    !.response = respond_pending(gate[h].package_name),
                    !.catalog_failed = @ \/ ~dbok]]
    /\ UNCHANGED <<parser, index, worker, jobs, tick>>

\* routes/simple_api.py, simple_package: the blueprint's handler of
\* GET /simple/<package_name>/, over the DatabaseService.  db tells what the
\* handler finds: "none" (get_database_service() returns None), "ok",
\* "error" (every statement fails; get_package_status and add_package_pending
\* swallow it) or "insert_error" (only the INSERT fails).
DbStates == {"none", "ok", "error", "insert_error"}

simple_package(h, package_name, answer, db) ==
    /\ gate[h].pc = "idle"
    /\ answer \in {IndexAnswer(index, package_name), "500", "exception"}
    /\ LET rows == { i \in 1..Len(catalog) : catalog[i].package_name = package_name }
           read == db \in {"ok", "insert_error"}
           problem(status, retry_after) ==
               HttpResponse("application/problem+json", status,
                            Instance(package_name), retry_after)
           start == [GateIdle EXCEPT !.pc = "done", !.handler = "simple_package",
                                     !.package_name = package_name,
                                     !.available = (answer = "200")]
       IN CASE answer = "200" ->
                 /\ gate' = [gate EXCEPT ![h] =
                       [start EXCEPT !.code = "200",
                                     !.response = HttpResponse("text/html", 0, <<>>, "None")]]
                 /\ UNCHANGED catalog
            [] answer = "404" /\ db = "none" ->
                 /\ gate' = [gate EXCEPT ![h] =
                       [start EXCEPT !.code = "503", !.catalog_failed = TRUE,
                                     !.response = problem(503, "180")]]
                 /\ UNCHANGED catalog
            [] answer = "404" /\ read /\ rows # {} ->
                 /\ \E i \in rows :
                       gate' = [gate EXCEPT ![h] =
                          [start EXCEPT
                             !.status = catalog[i].status,
                             !.vuln_info = catalog[i].vulnerability_info,
                             !.code = IF catalog[i].status = "vulnerable"
                                        THEN "403" ELSE "503",
                             !.response = IF catalog[i].status = "vulnerable"
                                            THEN problem(403, "None")
                                            ELSE problem(503, "180")]]
                 /\ UNCHANGED catalog
            [] answer = "404" /\ db # "none" /\ (rows = {} \/ ~read) ->
                 /\ db = "ok" => Len(catalog) < MaxRows
                 /\ gate' = [gate EXCEPT ![h] =
                       [start EXCEPT !.status = "unknown", !.code = "503",
                                     !.catalog_failed = (db # "ok"),
                                     !.response = problem(503, "180")]]
                 /\ catalog' = IF db = "ok"
                                 THEN Append(catalog, Row(package_name, None, "None",
                                                          "pending", "None"))
                                 ELSE catalog
            [] OTHER ->
                 /\ gate' = [gate EXCEPT ![h] =
                       [start EXCEPT !.code = "500",
                                     !.response = problem(500, "None")]]
                 /\ UNCHANGED catalog
    /\ UNCHANGED <<parser, index, worker, jobs, tick>>

\* The response has been sent; the handler serves the next request.
GateReturn(h) ==
    /\ gate[h].pc = "done"
    /\ gate' = [gate EXCEPT ![h] = GateIdle]
    /\ UNCHANGED <<parser, catalog, index, worker, jobs, tick>>


(***************************************************************************)
(* Scanner worker: scan_package.py                                         *)
(***************************************************************************)

\* is_universal_package: decided by the file name's ending.
is_universal_package(package_file) ==
    \/ package_file.suffix = ".tar.gz"
    \/ package_file.suffix = "-py3-none-any.whl"
    \/ package_file.suffix = "-py2.py3-none-any.whl"

\* parse_package_spec: re.match(r'^(.+)==(.+)$'); the first group is greedy,
\* so the split is at the last "==" that leaves both sides non-empty.
\* ok = FALSE stands for the ValueError.
parse_package_spec(package_spec) ==
    LET cuts == { i \in 2..(Len(package_spec) - 1) : package_spec[i] = "==" }
    IN IF cuts = {}
         THEN [ok |-> FALSE, name |-> None, version |-> None]
         ELSE LET i == CHOOSE c \in cuts : \A d \in cuts : d <= c
              IN [ok |-> TRUE,
                  name |-> SubSeq(package_spec, 1, i - 1),
                  version |-> SubSeq(package_spec, i + 1, Len(package_spec))]

\* The wheel a runtime's pip fetches when the release has a build for exactly
\* that interpreter.
SpecificSuffix(py_version) ==
    CASE py_version = "3.9" -> "-cp39-cp39-linux_x86_64.whl"
      [] py_version = "3.10" -> "-cp310-cp310-linux_x86_64.whl"
      [] py_version = "3.11" -> "-cp311-cp311-linux_x86_64.whl"
      [] py_version = "3.12" -> "-cp312-cp312-linux_x86_64.whl"
      [] py_version = "3.13" -> "-cp313-cp313-linux_x86_64.whl"
      [] OTHER -> "-cp314-cp314-linux_x86_64.whl"

\* What download_package_for_python_version may return for the k-th runtime:
\* None, a source distribution, or that runtime's wheel.
DownloadOutcomes(k) == {"None", ".tar.gz", SpecificSuffix(PYTHON_VERSIONS[k])}

\* download_packages_for_all_versions: the loop over PYTHON_VERSIONS from the
\* k-th runtime on.  files is the list the function returns; fetched is every
\* file a runtime's download retrieved into the staging directory.
\* A faulty variant of DownloadLoop that goes on to the later runtimes after
\* a universal file.
RECURSIVE DownloadLoop_NoStop(_, _, _, _, _, _)
DownloadLoop_NoStop(package_name, package_version, outcomes, k, downloaded_files, fetched) ==
    IF k > Len(PYTHON_VERSIONS)
      THEN [files |-> downloaded_files, fetched |-> fetched]
      ELSE IF outcomes[k] = "None"
        THEN DownloadLoop_NoStop(package_name, package_version, outcomes, k + 1,
                                 downloaded_files, fetched)
        ELSE LET package_file == File(package_name, package_version, outcomes[k])
             IN DownloadLoop_NoStop(package_name, package_version, outcomes, k + 1,
                                    IF is_universal_package(package_file)
                                      THEN <<package_file>>
                                      ELSE Append(downloaded_files, package_file),
                                    fetched \cup {package_file})

RECURSIVE DownloadLoop(_, _, _, _, _, _)
DownloadLoop(package_name, package_version, outcomes, k, downloaded_files, fetched) ==
    IF k > Len(PYTHON_VERSIONS)
      THEN [files |-> downloaded_files, fetched |-> fetched]
      ELSE IF outcomes[k] = "None"
        THEN DownloadLoop(package_name, package_version, outcomes, k + 1,
                          downloaded_files, fetched)
        ELSE LET package_file == File(package_name, package_version, outcomes[k])
             IN IF is_universal_package(package_file)
                  THEN [files |-> <<package_file>>,
                        fetched |-> fetched \cup {package_file}]
                  ELSE DownloadLoop(package_name, package_version, outcomes, k + 1,
                                    Append(downloaded_files, package_file),
                                    fetched \cup {package_file})

download_packages_for_all_versions(package_name, package_version, outcomes) ==
    DownloadLoop(package_name, package_version, outcomes, 1, <<>>, {})

\* scan_package_vulnerabilities: the scan result for each way the scanner
\* run can end.  "None" is the Python None the function returns.
ScanOutcomes == {"disabled", "rc0", "rc1", "timeout", "not_installed", "error"}

scan_package_vulnerabilities(outcome) ==
    CASE outcome = "disabled" -> [vulnerable |-> "False", note |-> "scanning disabled"]
      [] outcome = "rc0" -> [vulnerable |-> "False", note |-> "None"]
      [] outcome = "rc1" -> [vulnerable |-> "True", note |-> "None"]
      [] outcome = "not_installed" -> [vulnerable |-> "False", note |-> "trivy not available"]
      [] OTHER -> [vulnerable |-> "None", note |-> "None"]

\* The status string scan_and_upload_package writes after a clean scan and
\* successful uploads (line 412).
CleanStatus == "safe"

WorkerIdle ==
    [pc |-> "idle", job |-> None, package_name |-> None, package_version |-> None,
     package_files |-> <<>>, fetched |-> {}, i |-> 0,
     upload_success |-> TRUE, upd_status |-> "None", upd_info |-> "None",
     result |-> "None", wrote |-> FALSE,
     scan |-> "None"]   \* how the scanner run of this process ended

\* main(): parse the package spec (lines 453-463).  A ValueError exits 1.
WorkerStart(w, package_spec, job) ==
    LET p == parse_package_spec(package_spec)
    IN worker' = [worker EXCEPT ![w] =
          IF p.ok
            THEN [WorkerIdle EXCEPT !.pc = "download", !.job = job,
                                    !.package_name = p.name,
                                    !.package_version = p.version]
            ELSE [WorkerIdle EXCEPT !.pc = "exit", !.job = job,
                                    !.result = "exit1"]]

\* scan_package.py run by hand: PACKAGE_NAME or argv[1] (lines 425-439).
WorkerSpecs == {<<"numpy", "==", "1.0">>, <<"numpy", "=", "1.0">>}

WorkerMain(w, package_spec) ==
    /\ worker[w].pc = "idle"
    /\ WorkerStart(w, package_spec, None)
    /\ UNCHANGED <<parser, catalog, index, gate, jobs, tick>>

\* scan_and_upload_package step 1 (lines 339-352).
WorkerDownload(w, outcomes) ==
    /\ worker[w].pc = "download"
    /\ LET d == download_packages_for_all_versions(
                    worker[w].package_name, worker[w].package_version, outcomes)
       IN worker' = [worker EXCEPT ![w] =
             IF d.files = <<>>
               THEN [@ EXCEPT !.fetched = d.fetched, !.pc = "update",
                              !.upd_status = "error",
                              !.upd_info = "error",
                              !.result = "False"]
               ELSE [@ EXCEPT !.package_files = d.files, !.fetched = d.fetched,
                              !.pc = "scan"]]
    /\ UNCHANGED <<parser, catalog, index, gate, jobs, tick>>

\* scan_and_upload_package step 2 and the branch on the result (lines 354-384).
WorkerScan(w, outcome) ==
    /\ worker[w].pc = "scan"
    /\ LET scan_result == scan_package_vulnerabilities(outcome)
       IN worker' = [worker EXCEPT ![w] =
             CASE scan_result.vulnerable = "None" ->
                    [@ EXCEPT !.pc = "update", !.package_files = <<>>,
                              !.upd_status = "error", !.upd_info = "error",
                              !.result = "False", !.scan = outcome]
               [] scan_result.vulnerable = "True" ->
                    [@ EXCEPT !.pc = "update", !.package_files = <<>>,
                              !.upd_status = "vulnerable",
                              !.upd_info = "vulnerabilities",
                              !.result = "False", !.scan = outcome]
               [] OTHER ->
                    [@ EXCEPT !.pc = "upload", !.i = 1,
                              !.upload_success = TRUE, !.scan = outcome]]
    /\ UNCHANGED <<parser, catalog, index, gate, jobs, tick>>

\* One pass of the upload loop (lines 386-399): upload_to_pypi returns True
\* when twine succeeds or reports that the file already exists.
WorkerUpload(w, ok) ==
    /\ worker[w].pc = "upload"
    /\ LET package_file == worker[w].package_files[worker[w].i]
           last == worker[w].i = Len(worker[w].package_files)
           success == worker[w].upload_success /\ ok
       IN /\ index' = IF ok THEN index \cup {package_file} ELSE index
          /\ worker' = [worker EXCEPT ![w] =
                IF ~last
                  THEN [@ EXCEPT !.i = @ + 1, !.upload_success = success]
                  ELSE IF ~success
                    THEN [@ EXCEPT !.upload_success = success, !.pc = "update",
                                   !.package_files = <<>>, !.i = 0,
                                   !.upd_status = "error",
                                   !.upd_info = "error",
                                   !.result = "False"]
                    ELSE [@ EXCEPT !.pc = "update",
                                   !.package_files = <<>>, !.i = 0,
                                   !.upd_status = CleanStatus,
                                   !.upd_info = "uploaded_to_pypi",
                                   !.result = "True"]]
    /\ UNCHANGED <<parser, catalog, gate, jobs, tick>>

\* update_package_status (lines 77-118): every error is caught and turned
\* into a False that no caller reads.
WorkerUpdate(w, dbok) ==
    /\ worker[w].pc = "update"
    /\ catalog' = IF dbok
                    THEN UpdatePackageStatus(catalog, worker[w].package_name,
                                             worker[w].upd_status, worker[w].upd_info)
                    ELSE catalog
    /\ worker' = [worker EXCEPT ![w] =
          [@ EXCEPT !.pc = "exit", !.wrote = dbok, !.fetched = {},
                    !.upload_success = TRUE]]
    /\ UNCHANGED <<parser, index, gate, jobs, tick>>

\* sys.exit: the process ends; a runner job it was the container of is over.
WorkerExit(w) ==
    /\ worker[w].pc = "exit"
    /\ worker' = [worker EXCEPT ![w] = WorkerIdle]
    /\ jobs' = IF worker[w].job = None
                 THEN jobs
                 ELSE [jobs EXCEPT ![worker[w].job] = @ - 1]
    /\ UNCHANGED <<parser, catalog, index, gate, tick>>


(***************************************************************************)
(* Orchestrator: process_pending_packages.py, and the workload runner.     *)
(***************************************************************************)

\* main() line 490: the list of packages a tick creates jobs for.  The call
\* of get_pending_packages(available_slots) on line 489 is commented out.
PendingPackages == << <<"pandas", "=", "3.0.0">> >>

\* PACKAGE_NAME values the runner may hold jobs for
JobSpecs == { PendingPackages[k] : k \in 1..Len(PendingPackages) }

RECURSIVE SumJobs(_, _)
SumJobs(j, S) ==
    IF S = {} THEN 0
    ELSE LET s == CHOOSE x \in S : TRUE IN j[s] + SumJobs(j, S \ {s})

\* Runner: countJobs(jobName startsWith "scanner-", status notIn done, failed,
\* cancelled).
RunningJobs == SumJobs(jobs, JobSpecs)

\* How one POST of the countJobs query may end.
CountOutcomes == {"ok", "graphql_errors", "http_error", "connection_error"}

\* get_running_jobs_count, the retry loop (lines 94-112) from the given
\* attempt on: a ConnectionError is retried while attempts remain and re-raised
\* on the last one; raise_for_status raises at once.  The answers
\* "connection_error" and "http_error" stand for the exception leaving the
\* loop.
RECURSIVE CountRequest(_, _)
CountRequest(attempts, attempt) ==
    IF attempts[attempt] = "connection_error"
      THEN IF attempt < max_retries
             THEN CountRequest(attempts, attempt + 1)
             ELSE [answer |-> "connection_error", tries |-> attempt]
      ELSE [answer |-> attempts[attempt], tries |-> attempt]

\* get_running_jobs_count: the runner's count, or 0 when the request raised
\* (outer except, lines 131-137) or the answer carries GraphQL errors
\* (lines 120-122).
get_running_jobs_count(attempts, count) ==
    IF CountRequest(attempts, 1).answer = "ok" THEN count ELSE 0

TickIdle ==
    [pc |-> "idle", running_jobs |-> 0, available_slots |-> 0,
     pending_packages |-> <<>>, created_count |-> 0,
     count_answer |-> "None", count_tries |-> 0,
     now |-> 0, job_names |-> {}, name_reused |-> FALSE]

\* A faulty variant of TickCount that goes on when no slot is free.
TickCount_ZeroSlotsGoOn(attempts) ==
    /\ tick.pc = "idle"
    /\ LET running_jobs == get_running_jobs_count(attempts, RunningJobs)
           available_slots == MAX_CONCURRENT_JOBS - running_jobs
           request == CountRequest(attempts, 1)
           counted == [tick EXCEPT !.created_count = 0,
                                   !.running_jobs = running_jobs,
                                   !.available_slots = available_slots,
                                   !.count_answer = request.answer,
                                   !.count_tries = request.tries]
       IN tick' = IF available_slots < 0
                    THEN counted
                    ELSE [counted EXCEPT !.pc = "create",
                                         !.pending_packages = PendingPackages]
    /\ UNCHANGED <<parser, catalog, index, gate, worker, jobs>>

\* main() steps 1-3 (lines 475-493).
TickCount(attempts) ==
    /\ tick.pc = "idle"
    /\ LET running_jobs == get_running_jobs_count(attempts, RunningJobs)
           available_slots == MAX_CONCURRENT_JOBS - running_jobs
           request == CountRequest(attempts, 1)
           counted == [tick EXCEPT !.created_count = 0,
                                   !.running_jobs = running_jobs,
                                   !.available_slots = available_slots,
                                   !.count_answer = request.answer,
                                   !.count_tries = request.tries]
       IN tick' = IF available_slots <= 0
                    THEN counted
                    ELSE [counted EXCEPT !.pc = "create",
                                         !.pending_packages = PendingPackages]
    /\ UNCHANGED <<parser, catalog, index, gate, worker, jobs>>

\* str.lower().replace('_', '-').replace('.', '-') on one chunk.
SanitizeChunk(chunk) ==
    CASE chunk = "3.0.0" -> "3-0-0"
      [] chunk = "1.0" -> "1-0"
      [] chunk = "Pandas" -> "pandas"
      [] OTHER -> chunk

\* package_name.split('==')[0]: the chunks before the first "==".
RECURSIVE SplitHead(_)
SplitHead(package_name) ==
    IF package_name = <<>> \/ Head(package_name) = "=="
      THEN <<>>
      ELSE <<Head(package_name)>> \o SplitHead(Tail(package_name))

\* create_scanner_job_graphql lines 245-248:
\* f"scanner-{safe_name}-{timestamp}", timestamp in whole seconds.
job_name(package_name, timestamp) ==
    LET head == SplitHead(package_name)
        safe_name == [k \in 1..Len(head) |-> SanitizeChunk(head[k])]
    IN <<"scanner">> \o safe_name \o <<timestamp>>

\* A faulty variant of TickCreate that records a failed submit in the
\* catalog rows of the package.
TickCreate_FailureMarksError(ok, timestamp) ==
    /\ tick.pc = "create"
    /\ ok => RunningJobs < MaxJobs
    /\ timestamp \in {tick.now, tick.now + 1}
    /\ timestamp <= MaxClock
    /\ LET package_name == Head(tick.pending_packages)
           rest == Tail(tick.pending_packages)
           name == job_name(package_name, timestamp)
       IN /\ jobs' = IF ok THEN [jobs EXCEPT ![package_name] = @ + 1] ELSE jobs
          /\ catalog' = IF ok THEN catalog
                        ELSE UpdatePackageStatus(catalog, <<Head(package_name)>>,
                                                 "error", "error")
          /\ tick' = [tick EXCEPT
                        !.pending_packages = rest,
                        !.created_count = IF ok THEN @ + 1 ELSE @,
                        !.now = timestamp,
                        !.job_names = IF ok THEN @ \cup {name} ELSE @,
                        !.name_reused = @ \/ (ok /\ name \in tick.job_names),
                        !.pc = IF rest = <<>> THEN "summary" ELSE "create"]
    /\ UNCHANGED <<parser, index, gate, worker>>

\* main() step 4, one pass of the loop (lines 500-505):
\* create_scanner_job_graphql returns True when the runner accepted the job.
\* timestamp is the clock reading of the call; tick.job_names are the names
\* of the jobs the runner has accepted, tick.name_reused tells that one of
\* them was submitted again.
TickCreate(ok, timestamp) ==
    /\ tick.pc = "create"
    /\ ok => RunningJobs < MaxJobs
    /\ timestamp \in {tick.now, tick.now + 1}
    /\ timestamp <= MaxClock
    /\ LET package_name == Head(tick.pending_packages)
           rest == Tail(tick.pending_packages)
           name == job_name(package_name, timestamp)
       IN /\ jobs' = IF ok THEN [jobs EXCEPT ![package_name] = @ + 1] ELSE jobs
          /\ tick' = [tick EXCEPT
                        !.pending_packages = rest,
                        !.created_count = IF ok THEN @ + 1 ELSE @,
                        !.now = timestamp,
                        !.job_names = IF ok THEN @ \cup {name} ELSE @,
                        !.name_reused = @ \/ (ok /\ name \in tick.job_names),
                        !.pc = IF rest = <<>> THEN "summary" ELSE "create"]
    /\ UNCHANGED <<parser, catalog, index, gate, worker>>

\* main() step 5 (lines 507-514): the tick ends.
TickSummary ==
    /\ tick.pc = "summary"
    /\ tick' = [tick EXCEPT !.pc = "idle"]
    /\ UNCHANGED <<parser, catalog, index, gate, worker, jobs>>

\* The runner starts the container of an outstanding job: scan_package.py
\* with PACKAGE_NAME = the job's spec (line 351).
JobRun(w, package_spec) ==
    /\ worker[w].pc = "idle"
    /\ jobs[package_spec] >
          Cardinality({ v \in Workers : worker[v].job = package_spec })
    /\ WorkerStart(w, package_spec, package_spec)
    /\ UNCHANGED <<parser, catalog, index, gate, jobs, tick>>

(***************************************************************************)
(* Specifications.                                                         *)
(***************************************************************************)
Init ==
    /\ catalog = <<>>
    /\ index = {}
    /\ gate = [h \in Handlers |-> GateIdle]
    /\ worker = [w \in Workers |-> WorkerIdle]
    /\ jobs = [s \in JobSpecs |-> 0]
    /\ tick = TickIdle
    /\ parser = ParserIdle

Answers == {"200", "404", "500", "exception", "other_exception"}

GateNext(H, Vs, Pys, Db) ==
    \/ \E h \in H, n \in Names, v \in Vs, py \in Pys, a \in Answers :
          GateProbe(h, n, v, py, a)
    \/ \E h \in H, dbok \in Db : GateLookup(h, dbok)
    \/ \E h \in H, dbok \in Db : GateAdd(h, dbok)
    \/ \E h \in H : GateReturn(h)

\* what pip download yields for each entry of PYTHON_VERSIONS, in order
DownloadChoices ==
    { o \in [1..NumRuntimes -> UNION { DownloadOutcomes(k) : k \in 1..NumRuntimes }] :
        \A k \in 1..NumRuntimes : o[k] \in DownloadOutcomes(k) }

WorkerNext ==
    \/ \E w \in Workers, s \in WorkerSpecs : WorkerMain(w, s)
    \/ \E w \in Workers, o \in DownloadChoices : WorkerDownload(w, o)
    \/ \E w \in Workers, o \in ScanOutcomes : WorkerScan(w, o)
    \/ \E w \in Workers, ok \in BOOLEAN : WorkerUpload(w, ok)
    \/ \E w \in Workers, dbok \in BOOLEAN : WorkerUpdate(w, dbok)
    \/ \E w \in Workers : WorkerExit(w)

\* Spec: one Gate handler and the scanner worker over the catalog and the
\* internal index, database and upstream failures included.
Next == GateNext({"h1"}, {<<"1.0">>}, {"3.11.0"}, BOOLEAN) \/ WorkerNext

Spec == Init /\ [][Next]_vars

\* SpecDbUp: as Spec, with every catalog read and insert of the Gate
\* reaching the database.
NextDbUp == GateNext({"h1"}, {<<"1.0">>}, {"3.11.0"}, {TRUE}) \/ WorkerNext

SpecDbUp == Init /\ [][NextDbUp]_vars

\* SpecRace: the Gate's handlers running concurrently, database reachable.
NextRace == GateNext(Handlers, Versions, PyVersions, {TRUE})

SpecRace == Init /\ [][NextRace]_vars

\* SpecGate: one Gate handler over a catalog and an index that already hold
\* data (rows of any status written by earlier runs or by hand).
SeedKeys == { <<n, v>> : n \in Names, v \in {<<"latest">>, <<"1.0">>, None} }

SeedInfo(status) == IF status = "vulnerable" THEN "vulnerabilities" ELSE "None"

SeedRows ==
    { Row(k[1], k[2], "None", st, SeedInfo(st)) :
        k \in SeedKeys, st \in PackageStatus \cup {CleanStatus} }

RECURSIVE SeedCatalogs(_)
SeedCatalogs(n) ==
    IF n = 0 THEN { <<>> }
    ELSE LET shorter == SeedCatalogs(n - 1)
         IN shorter \cup
            { Append(c, r) : c \in { d \in shorter : Len(d) = n - 1 }, r \in SeedRows }

DistinctKeys(cat) ==
    \A i, j \in 1..Len(cat) :
        (cat[i].package_name = cat[j].package_name /\ cat[i].version = cat[j].version)
            => i = j

InitGate ==
    /\ catalog \in { c \in SeedCatalogs(MaxSeedRows) : DistinctKeys(c) }
    /\ index \in { {}, {File(<<"numpy">>, <<"1.0">>, ".tar.gz")} }
    /\ gate = [h \in Handlers |-> GateIdle]
    /\ worker = [w \in Workers |-> WorkerIdle]
    /\ jobs = [s \in JobSpecs |-> 0]
    /\ tick = TickIdle
    /\ parser = ParserIdle

NextGate == GateNext({"h1"}, Versions, PyVersions, BOOLEAN)

SpecGate == InitGate /\ [][NextGate]_vars

\* SpecRoute: the blueprint's handler over a catalog and an index that already
\* hold data.
NextRoute ==
    \/ \E n \in Names, a \in Answers, db \in DbStates : simple_package("h1", n, a, db)
    \/ GateReturn("h1")

SpecRoute == InitGate /\ [][NextRoute]_vars

\* The orchestrator (one replica, one tick at a time) and the runner.
\* ---------------------------------------------------------------------
\* The normalizer alone: every request string name [extras] op version
\* over a small alphabet, and one call on it.
\* ---------------------------------------------------------------------
ParseNames == {<<>>, <<"n">>, <<"n", "-", "p", "1">>}
ParseExtras == {<<>>, <<"[", "p", "]">>}
ParseOps == {Operators[i] : i \in 1..Len(Operators)}
VersionChars == {"1", ".", " ", "[", "]", "="}
ParseVersions == UNION {[1..k -> VersionChars] : k \in 0..MaxVersionLen}

InitParse ==
    /\ catalog = <<>>
    /\ index = {}
    /\ gate = [h \in Handlers |-> GateIdle]
    /\ worker = [w \in Workers |-> WorkerIdle]
    /\ jobs = [s \in JobSpecs |-> 0]
    /\ tick = TickIdle
    /\ \E n \in ParseNames, e \in ParseExtras, o \in ParseOps \cup {<<>>},
          v \in ParseVersions :
          parser = [ParserIdle EXCEPT
                      !.pc = "input", !.name = n, !.extras = e, !.op = o,
                      !.version = v, !.package_name = n \o e \o o \o v]

NextParse == ParseCall

SpecParse == InitParse /\ [][NextParse]_vars

\* ---------------------------------------------------------------------
\* SpecWorker: the scanner worker over a catalog that already holds rows
\* of several versions of the package, in the statuses the Gate and the
\* worker write.
\* ---------------------------------------------------------------------
WrittenStatuses == {"pending", "error", "vulnerable", CleanStatus}

WorkerSeedCatalogs ==
    { c \in SeedCatalogs(MaxRows) :
        /\ DistinctKeys(c)
        /\ \A i \in 1..Len(c) : c[i].status \in WrittenStatuses }

InitWorker ==
    /\ catalog \in WorkerSeedCatalogs
    /\ index = {}
    /\ gate = [h \in Handlers |-> GateIdle]
    /\ worker = [w \in Workers |-> WorkerIdle]
    /\ jobs = [s \in JobSpecs |-> 0]
    /\ tick = TickIdle
    /\ parser = ParserIdle

SpecWorker == InitWorker /\ [][WorkerNext]_vars

NextTick ==
    \/ \E attempts \in [1..max_retries -> CountOutcomes] : TickCount(attempts)
    \/ \E ok \in BOOLEAN, timestamp \in 0..MaxClock : TickCreate(ok, timestamp)
    \/ TickSummary
    \/ \E w \in Workers, s \in JobSpecs : JobRun(w, s)
    \/ \E w \in Workers : WorkerExit(w)

SpecTick == Init /\ [][NextTick]_vars

\* ---------------------------------------------------------------------
\* SpecLive: Gate, orchestrator and runner in normal operation.  The catalog
\* holds at most the row of (numpy, 1.0) in some status; the index, the
\* catalog and the runner answer every request; the scheduler starts tick
\* after tick, the runner runs every job it accepted, and a handler or
\* process that has started runs to its end.
\* ---------------------------------------------------------------------
AllOk == [k \in 1..max_retries |-> "ok"]

LiveCatalogs ==
    { c \in SeedCatalogs(MaxSeedRows) :
        \A i \in 1..Len(c) :
           /\ c[i].package_name = <<"numpy">>
           /\ c[i].version = <<"1.0">> }

InitLive ==
    /\ catalog \in LiveCatalogs
    /\ index = {}
    /\ gate = [h \in Handlers |-> GateIdle]
    /\ worker = [w \in Workers |-> WorkerIdle]
    /\ jobs = [s \in JobSpecs |-> 0]
    /\ tick = TickIdle
    /\ parser = ParserIdle

NextLive ==
    \/ GateProbe("h1", <<"numpy">>, <<"1.0">>, "3.11.0", "404")
    \/ GateLookup("h1", TRUE)
    \/ GateAdd("h1", TRUE)
    \/ GateReturn("h1")
    \/ TickCount(AllOk)
    \/ TickCreate(TRUE, 0)
    \/ TickSummary
    \/ \E w \in Workers, s \in JobSpecs : JobRun(w, s)
    \/ \E w \in Workers : WorkerExit(w)

FairLive ==
    /\ WF_vars(GateLookup("h1", TRUE))
    /\ WF_vars(GateAdd("h1", TRUE))
    /\ WF_vars(GateReturn("h1"))
    /\ WF_vars(TickCount(AllOk))
    /\ WF_vars(TickCreate(TRUE, 0))
    /\ WF_vars(TickSummary)
    /\ WF_vars(\E w \in Workers, s \in JobSpecs : JobRun(w, s))
    /\ WF_vars(\E w \in Workers : WorkerExit(w))

SpecLive == InitLive /\ [][NextLive]_vars /\ FairLive

\* ---------------------------------------------------------------------
\* SpecRetry: the worker, with every outcome of its downloads, scans,
\* uploads and status writes, next to the orchestrator and the runner in
\* normal operation.  A worker that has started runs to its end.  The
\* catalog holds the pending row the Gate created for the package.
\* ---------------------------------------------------------------------
InitRetry ==
    /\ catalog = <<Row(<<"numpy">>, <<"1.0">>, "3.11.0", "pending", "None")>>
    /\ index = {}
    /\ gate = [h \in Handlers |-> GateIdle]
    /\ worker = [w \in Workers |-> WorkerIdle]
    /\ jobs = [s \in JobSpecs |-> 0]
    /\ tick = TickIdle
    /\ parser = ParserIdle

NextRetry ==
    \/ WorkerMain("w1", <<"numpy", "==", "1.0">>)
    \/ \E w \in Workers, o \in DownloadChoices : WorkerDownload(w, o)
    \/ \E w \in Workers, o \in ScanOutcomes : WorkerScan(w, o)
    \/ \E w \in Workers, ok \in BOOLEAN : WorkerUpload(w, ok)
    \/ \E w \in Workers, dbok \in BOOLEAN : WorkerUpdate(w, dbok)
    \/ \E w \in Workers : WorkerExit(w)
    \/ TickCount(AllOk)
    \/ TickCreate(TRUE, 0)
    \/ TickSummary
    \/ \E w \in Workers, s \in JobSpecs : JobRun(w, s)

FairRetry ==
    /\ WF_vars(\E w \in Workers, o \in DownloadChoices : WorkerDownload(w, o))
    /\ WF_vars(\E w \in Workers, o \in ScanOutcomes : WorkerScan(w, o))
    /\ WF_vars(\E w \in Workers, ok \in BOOLEAN : WorkerUpload(w, ok))
    /\ WF_vars(\E w \in Workers, dbok \in BOOLEAN : WorkerUpdate(w, dbok))
    /\ WF_vars(\E w \in Workers : WorkerExit(w))
    /\ WF_vars(TickCount(AllOk))
    /\ WF_vars(TickCreate(TRUE, 0))
    /\ WF_vars(TickSummary)
    /\ WF_vars(\E w \in Workers, s \in JobSpecs : JobRun(w, s))

SpecRetry == InitRetry /\ [][NextRetry]_vars /\ FairRetry

\* ---------------------------------------------------------------------
\* SpecSubmit: the orchestrator and the runner, both outcomes of a submit
\* included, over a catalog that may hold a pending row of the package the
\* tick submits.  The scheduler starts tick
\* after tick, a tick runs to its end, and the runner runs every job.
\* ---------------------------------------------------------------------
InitSubmit ==
    /\ catalog \in { <<>>,
                     <<Row(<<"pandas">>, <<"3.0.0">>, "None", "pending", "None")>> }
    /\ index = {}
    /\ gate = [h \in Handlers |-> GateIdle]
    /\ worker = [w \in Workers |-> WorkerIdle]
    /\ jobs = [s \in JobSpecs |-> 0]
    /\ tick = TickIdle
    /\ parser = ParserIdle

NextSubmit ==
    \/ TickCount(AllOk)
    \/ \E ok \in BOOLEAN : TickCreate(ok, 0)
    \/ TickSummary
    \/ \E w \in Workers, s \in JobSpecs : JobRun(w, s)
    \/ \E w \in Workers : WorkerExit(w)

FairSubmit ==
    /\ WF_vars(TickCount(AllOk))
    /\ WF_vars(\E ok \in BOOLEAN : TickCreate(ok, 0))
    /\ WF_vars(TickSummary)
    /\ WF_vars(\E w \in Workers, s \in JobSpecs : JobRun(w, s))
    /\ WF_vars(\E w \in Workers : WorkerExit(w))

SpecSubmit == InitSubmit /\ [][NextSubmit]_vars /\ FairSubmit

(***************************************************************************)
(* Properties.                                                             *)
(***************************************************************************)

C2_NoAllowWithoutApproval ==
    \A h \in Handlers :
        (gate[h].pc = "done" /\ gate[h].code = "200")
        => /\ gate[h].status \notin {"pending", "vulnerable"}
           /\ gate[h].unread \cap {"pending", "vulnerable"} = {}

\* C2 (amended): when the probe does not find the package on the index, a
\* request whose catalog read returns a pending or vulnerable row is not
\* answered 200.
C2_NoAllowWhenNotOnIndex ==
    \A h \in Handlers :
        (gate[h].pc = "done" /\ ~gate[h].available
           /\ gate[h].status \in {"pending", "vulnerable"})
        => gate[h].code # "200"

C2_Witness ==
    \E h \in Handlers :
        /\ gate[h].pc = "done"
        /\ ~gate[h].available
        /\ gate[h].status = "pending"
        /\ gate[h].code = "503"

\* C3: the worker sets the clean status only when every artifact it
\* downloaded has been accepted by the internal index.
C3_UploadBeforeCompleted ==
    \A w \in Workers :
        (worker[w].pc = "update" /\ worker[w].upd_status = CleanStatus)
        => worker[w].fetched \subseteq index

\* C4: while a catalog row is vulnerable, the internal index holds no
\* artifact of that row's (name, version).
C4_NoPublishOfVulnerable ==
    \A i \in 1..Len(catalog) :
        catalog[i].status = "vulnerable"
        => ~ \E f \in index :
                f.name = catalog[i].package_name /\ f.version = catalog[i].version

\* C5: at most one scanner job is outstanding for any package key.
C5_SingleFlight == \A s \in JobSpecs : jobs[s] <= 1

\* C6: the number of scanner jobs the runner holds never exceeds
\* MAX_CONCURRENT_JOBS.
C6_ConcurrencyCap == RunningJobs <= MAX_CONCURRENT_JOBS

\* C7: two concurrent first-time Gate calls for the same (name, version),
\* both finding the package absent from the index and from the catalog,
\* leave exactly one pending row.
C7_OnePendingRowAfterRace ==
    (/\ gate["h1"].pc = "done" /\ gate["h2"].pc = "done"
     /\ gate["h1"].package_name = gate["h2"].package_name
     /\ gate["h1"].version = gate["h2"].version
     /\ ~gate["h1"].available /\ ~gate["h2"].available
     /\ gate["h1"].status = "unknown" /\ gate["h2"].status = "unknown")
    => Cardinality({ i \in FindMatches(catalog, gate["h1"].package_name,
                                       gate["h1"].version) :
                       catalog[i].status = "pending" }) = 1

\* C8: the catalog holds at most one row per (name, version).
C8_UniqueNameVersionRows ==
    \A i, j \in 1..Len(catalog) :
        (catalog[i].package_name = catalog[j].package_name
           /\ catalog[i].version = catalog[j].version)
        => i = j

C10_CleanScanEndToEnd ==
    /\ \A w \in Workers :
          (worker[w].pc = "exit" /\ worker[w].result = "True" /\ worker[w].wrote)
          => \A i \in 1..Len(catalog) :
                (catalog[i].package_name = worker[w].package_name
                   /\ catalog[i].version = worker[w].package_version)
                => catalog[i].status = "completed"
    /\ \A h \in Handlers :
          (gate[h].pc = "done" /\ gate[h].status = CleanStatus)
          => gate[h].code = "200"

\* C11: every status change of a catalog row is a step of the lifecycle
\* pending -> downloaded -> {completed, vulnerable, scan_error} or
\* pending -> {not_found, download_error}.
C11_LifecycleSteps ==
    [][ \A i \in 1..Len(catalog) :
           (i <= Len(catalog') /\ catalog'[i].status # catalog[i].status)
           => <<catalog[i].status, catalog'[i].status>> \in
                 { <<"pending", "downloaded">>, <<"downloaded", "completed">>,
                   <<"downloaded", "vulnerable">>, <<"downloaded", "scan_error">>,
                   <<"pending", "not_found">>, <<"pending", "download_error">> } ]_vars

\* C12: a row whose status is completed or vulnerable never changes status
\* afterwards (a status write on a terminal row is rejected).
C12_TerminalRowsStay ==
    [][ \A i \in 1..Len(catalog) :
           (i <= Len(catalog') /\ catalog[i].status \in {"completed", "vulnerable"})
           => catalog'[i].status = catalog[i].status ]_vars

\* C13: the status of every catalog row is a member of PackageStatus.
C13_StatusInEnum ==
    \A i \in 1..Len(catalog) : catalog[i].status \in PackageStatus

\* C14: a catalog row has vulnerability_info populated if and only if its
\* status is vulnerable.
C14_VulnInfoIffVulnerable ==
    \A i \in 1..Len(catalog) :
        (catalog[i].vulnerability_info # "None") <=> (catalog[i].status = "vulnerable")

\* C15: a Gate call during which the catalog could not be reached (read or
\* insert failed, package absent from the index) returns 500.
C15_CatalogFailureIs500 ==
    \A h \in Handlers :
        (gate[h].pc = "done" /\ ~gate[h].available /\ gate[h].catalog_failed)
        => gate[h].code = "500"

\* C16: a worker run whose status write failed does not end as a success.
C16_FinalizeErrorReported ==
    \A w \in Workers :
        (worker[w].pc = "exit" /\ worker[w].result = "True") => worker[w].wrote

\* C17: a count request of the orchestrator that ends in a connection error
\* has been tried max_retries times, and the tick then ends with the error
\* instead of going on to submit jobs with a default count.
C17_RunnerErrorsSurface ==
    tick.count_answer = "connection_error"
    => /\ tick.count_tries = max_retries
       /\ tick.pc = "idle"
       /\ tick.created_count = 0

\* C18: no two jobs the orchestrator submitted carry the same job name.
C18_JobNamesUnique == ~tick.name_reused

\* C19: a Gate call that finds the package absent from the index and no
\* matching row in a catalog it can reach leaves a pending row for the
\* requested (name, version) and answers 503 application/problem+json with
\* status 503, instance /simple/{name}/ and Retry-After: 300.
C19_FirstSighting ==
    [][ \A h \in Handlers :
           (gate[h].pc # "done" /\ gate'[h].pc = "done" /\ ~gate'[h].available
              /\ gate'[h].status = "unknown" /\ ~gate'[h].catalog_failed)
           => /\ gate'[h].code = "503"
              /\ gate'[h].response =
                    HttpResponse("application/problem+json", 503,
                                 Instance(gate'[h].package_name), "300")
              /\ \E i \in FindMatches(catalog', gate'[h].package_name,
                                      gate'[h].version) :
                    catalog'[i].status = "pending" ]_vars

\* C20: the jobs a tick has submitted never exceed
\* max(0, MAX_CONCURRENT_JOBS - running), running being the count the tick
\* obtained; with no free slot the tick submits nothing.
C20_SubmitsWithinSlots ==
    tick.created_count <=
        (IF tick.available_slots > 0 THEN tick.available_slots ELSE 0)

C20_Witness ==
    /\ tick.pc = "idle"
    /\ tick.count_answer = "ok"
    /\ tick.running_jobs = MAX_CONCURRENT_JOBS
    /\ RunningJobs = MAX_CONCURRENT_JOBS
    /\ tick.available_slots = 0
    /\ tick.created_count = 0

\* C21: a Gate call has no response while it runs and ends with one response
\* whose status code is 200, 403, 503 or 500.
C21_ExactlyOneDecision ==
    \A h \in Handlers :
        /\ gate[h].pc = "done"
              => /\ gate[h].code \in {"200", "403", "503", "500"}
                 /\ gate[h].response # NoResponse
        /\ gate[h].pc \in {"lookup", "add"}
              => /\ gate[h].code = "None"
                 /\ gate[h].response = NoResponse

C21_Witness ==
    \E h \in Handlers :
        /\ gate[h].pc = "done"
        /\ gate[h].handler = "get_package"
        /\ gate[h].code = "500"
        /\ gate[h].response = respond_error

C23_WriteTouchesOwnRowOnly ==
    [][ \A w \in Workers :
          (worker[w].pc = "update" /\ worker'[w].pc = "exit")
             => \A i \in 1..Len(catalog) :
                   ( /\ catalog[i].package_name = worker[w].package_name
                     /\ catalog[i].version # worker[w].package_version )
                      => catalog'[i] = catalog[i] ]_vars

\* C24: a worker uploads artifacts, and writes the clean status, only after
\* a scanner run that ended with return code 0.
C24_CleanOnlyAfterScan ==
    \A w \in Workers :
        ( \/ worker[w].pc = "upload"
          \/ worker[w].upd_status = CleanStatus )
        => worker[w].scan = "rc0"

\* C25: a tick submits a job only for a package that has a pending row in
\* the catalog when the tick submits it.
C25_JobsOnlyForPendingRows ==
    [][ \A s \in JobSpecs :
          jobs'[s] > jobs[s]
             => \E i \in 1..Len(catalog) :
                   /\ catalog[i].status = "pending"
                   /\ catalog[i].package_name = <<Head(s)>> ]_vars

\* C26: the worker of a job runs for the name and version of the job's
\* package spec.
C26_JobCarriesNameAndVersion ==
    \A w \in Workers :
        (worker[w].job # None /\ worker[w].pc # "idle")
           => /\ parse_package_spec(worker[w].job).ok
              /\ worker[w].package_name = parse_package_spec(worker[w].job).name
              /\ worker[w].package_version = parse_package_spec(worker[w].job).version

\* C27: in normal operation every pending row of the catalog eventually is
\* completed or vulnerable.
C27_PendingRowsGetScanned ==
    \A i \in 1..MaxRows :
        (Len(catalog) >= i /\ catalog[i].status = "pending")
           ~> (Len(catalog) >= i /\ catalog[i].status \in {"completed", "vulnerable"})

\* C28: after a Gate call that found the key in a failure status and answered
\* 503, a tick takes the key into the list of packages it creates jobs for.
C28_FailedKeyScheduledAgain ==
    \A h \in Handlers :
        ( /\ gate[h].pc = "done"
          /\ gate[h].status \in {"not_found", "download_error", "scan_error", "error"}
          /\ gate[h].code = "503"
          /\ \E i \in 1..Len(catalog) :
                /\ catalog[i].package_name = gate[h].package_name
                /\ catalog[i].status = "pending" )
        ~> (\E k \in 1..Len(tick.pending_packages) :
               Head(tick.pending_packages[k]) = "numpy")

\* C29: after a worker's upload failed, a tick takes the worker's package
\* into the list of packages it creates jobs for.
C29_UploadFailureResubmitted ==
    \A w \in Workers :
        ( /\ worker[w].pc = "update"
          /\ ~worker[w].upload_success
          /\ worker[w].upd_status \notin {"completed", "vulnerable", CleanStatus} )
        ~> (\E k \in 1..Len(tick.pending_packages) :
               Head(tick.pending_packages[k]) = "numpy")

\* C30: a worker whose downloads all failed writes download_error; a worker
\* whose scanner failed, timed out or is unavailable writes scan_error and
\* uploads nothing.
C30_FailureStatuses ==
    \A w \in Workers :
        /\ (worker[w].pc = "update" /\ worker[w].scan = "None")
              => worker[w].upd_status = "download_error"
        /\ worker[w].scan \in {"error", "timeout", "not_installed"}
              => /\ worker[w].pc # "upload"
                 /\ worker[w].pc = "update" => worker[w].upd_status = "scan_error"

\* C31: a worker process that ends with exit code 0 has left the catalog row
\* of the (name, version) it scanned in the clean status.
C31_ExitZeroMeansRowClean ==
    \A w \in Workers :
        (worker[w].pc = "exit" /\ worker[w].result = "True")
           => \E i \in 1..Len(catalog) :
                 /\ catalog[i].package_name = worker[w].package_name
                 /\ catalog[i].version = worker[w].package_version
                 /\ catalog[i].status = CleanStatus

C33_CompletedCarriesUpstreamBody ==
    \A h \in Handlers :
        ( /\ gate[h].pc = "done"
          /\ gate[h].handler = "get_package"
          /\ ~gate[h].available
          /\ gate[h].status = "completed" )
        => gate[h].response = PassThrough

\* C34: a call of the blueprint's handler that ends without a 200 of the
\* index, in a state where the index would answer 404, ends as some call
\* answered 404 ends in that state: same response, same catalog effect.
C34_TransportErrorAsAbsent ==
    [][ \A h \in Handlers :
          ( /\ gate[h].pc = "idle"
            /\ gate'[h].pc = "done"
            /\ gate'[h].handler = "simple_package"
            /\ ~gate'[h].available
            /\ IndexAnswer(index, gate'[h].package_name) = "404" )
          => \E db \in DbStates :
                simple_package(h, gate'[h].package_name, "404", db) ]_vars

\* C35: a step of a Gate call either leaves the catalog as it is or appends
\* one pending row, and it leaves the catalog as it is when a row matching
\* the request is pending, downloaded, completed or vulnerable.
C35_GateOnlyInsertsPending ==
    [][ /\ \/ catalog' = catalog
           \/ /\ Len(catalog') = Len(catalog) + 1
              /\ SubSeq(catalog', 1, Len(catalog)) = catalog
              /\ catalog'[Len(catalog')].status = "pending"
        /\ \A h \in Handlers :
              ( /\ gate[h].pc # "idle"
                /\ gate'[h] # gate[h]
                /\ \E i \in FindMatches(catalog, gate[h].package_name,
                                        gate[h].version) :
                      catalog[i].status \in
                         {"pending", "downloaded", "completed", "vulnerable"} )
              => catalog' = catalog ]_vars

\* C36: a Gate call whose probe finds the package on the index ends at once
\* with 200 and the body of the index, without a catalog read (no status
\* obtained, no catalog failure) and with the catalog unchanged.
C36_PassThroughTouchesNoCatalog ==
    [][ \A h \in Handlers :
          (gate[h].pc = "idle" /\ gate'[h].pc # "idle" /\ gate'[h].available)
          => /\ gate'[h].pc = "done"
             /\ gate'[h].code = "200"
             /\ gate'[h].response = PassThrough
             /\ gate'[h].status = "None"
             /\ ~gate'[h].catalog_failed
             /\ catalog' = catalog ]_vars

C36_Witness ==
    \E h \in Handlers :
        /\ gate[h].pc = "done"
        /\ gate[h].handler = "get_package"
        /\ gate[h].available
        /\ gate[h].response = PassThrough
        /\ "vulnerable" \in gate[h].unread

\* C37: an insert of the Gate for a (name, version) that already has a row
\* leaves the catalog as it was.
C37_UpsertIdempotent ==
    [][ \A h \in Handlers :
          ( /\ gate[h].pc = "add"
            /\ gate'[h].pc = "done"
            /\ \E i \in 1..Len(catalog) :
                  /\ catalog[i].package_name = gate[h].package_name
                  /\ catalog[i].version = IF Truthy(gate[h].version)
                                            THEN gate[h].version ELSE <<"latest">> )
          => catalog' = catalog ]_vars

\* C38: over every catalog, find_by_name_and_version matches only rows of the
\* name, with exactly the version given or, with none given, with version
\* 'latest' or null; and the row create inserts for (name, v) is among the
\* rows it matches for (name, v), for v absent, empty or given.
C38_CreatedRowIsFound ==
    \A n \in Names, v \in Versions \cup {<<>>, <<"latest">>, <<"2.0">>} :
        /\ LET created == Create(catalog, n, v, "None", "pending")
           IN Len(created) \in FindMatches(created, n, v)
        /\ \A i \in FindMatches(catalog, n, v) :
              /\ catalog[i].package_name = n
              /\ IF v \in {None, <<>>}
                   THEN catalog[i].version \in {<<"latest">>, None}
                   ELSE catalog[i].version = v

C38_Witness ==
    \E h \in Handlers :
        /\ gate[h].pc = "done"
        /\ gate[h].version = None
        /\ gate[h].status = "unknown"
        /\ ~gate[h].catalog_failed
        /\ Len(catalog) > 0
        /\ catalog[Len(catalog)].version = <<"latest">>
        /\ catalog[Len(catalog)].status = "pending"
        /\ Len(catalog) \in FindMatches(catalog, gate[h].package_name, gate[h].version)

\* C39: for a worker about to download and every way the downloads of the
\* runtimes may end: when the k-th is the first to retrieve a universal file,
\* that file alone is returned and nothing was retrieved for a later runtime.
C39_UniversalStopsDownloads ==
    \A w \in Workers :
        worker[w].pc = "download"
        => \A o \in [1..NumRuntimes ->
                       {"None", ".tar.gz", "-py3-none-any.whl",
                        "-py2.py3-none-any.whl"}
                       \cup {SpecificSuffix(PYTHON_VERSIONS[j]) : j \in 1..NumRuntimes}] :
              \A k \in 1..NumRuntimes :
                 ( /\ o[k] \in {".tar.gz", "-py3-none-any.whl", "-py2.py3-none-any.whl"}
                   /\ \A j \in 1..(k - 1) :
                         o[j] \notin {".tar.gz", "-py3-none-any.whl",
                                      "-py2.py3-none-any.whl"} )
                 => LET d == download_packages_for_all_versions(
                                 worker[w].package_name, worker[w].package_version, o)
                    IN /\ d.files = <<File(worker[w].package_name,
                                           worker[w].package_version, o[k])>>
                       /\ d.fetched =
                             { File(worker[w].package_name,
                                    worker[w].package_version, o[j]) :
                                 j \in { i \in 1..k : o[i] # "None" } }

C39_Witness ==
    \E w \in Workers :
        /\ worker[w].pc = "scan"
        /\ Len(worker[w].package_files) = 1
        /\ is_universal_package(worker[w].package_files[1])
        /\ worker[w].fetched = {worker[w].package_files[1]}

====
